---- MODULE Spec2Model ----
(***************************************************************************)
(* EvmWalletController (src/package/EvmWalletController.ts) as a state     *)
(* machine.  One JavaScript macrotask (a public call, a provider event, a  *)
(* timer tick, the settling of an awaited network request) is one action;  *)
(* the synchronous code that runs up to the next network await is part of  *)
(* the same action.                                                        *)
(*                                                                         *)
(* Optional JavaScript values are sequences: Undefined is <<>> and a       *)
(* present value v is <<v>>.  A balance is kept as its amount in wei (the  *)
(* BigNumber the code stores is that amount over 10^18).                   *)
(***************************************************************************)
EXTENDS Integers, Sequences, FiniteSets, Bags, TLC

VARIABLES
    state,          \* BaseController state: IEvmWalletState
    data,           \* BaseController data: Partial<IEvmWalletData>
    storage,        \* localStorage behind #storageController
    networksList,   \* the networksList field
    modalKey,       \* #modalKey
    eventListeners, \* #eventListeners: the listeners of each event, in order
    handlers,       \* providers on which the three wallet handlers are registered
    interval,       \* TRUE while the #balanceUpdateInterval timer is running
    blockSubs,      \* Web3 instances with a live newBlockHeaders subscription:
                    \* "current" is data.web3, "leaked" stands for the instances
                    \* that data no longer holds
    tasks,          \* the suspended async calls, a bag of their locals
    initCall,       \* the initController call: where it stands, its cachedProvider
    poll,           \* waitingEthereumPromise: its attempts, whether its timer is live
    initEmits,      \* controllerInitialized emissions made by initController
    delivered,      \* the chain of the last chainChanged the handler took up
    last            \* what the last step did: operation, result, events emitted

vars == <<state, data, storage, networksList, modalKey, eventListeners, handlers,
          interval, blockSubs, tasks, initCall, poll, initEmits, delivered, last>>

\* Number of async calls (connectWallet and the subscription handlers) that
\* may be suspended at the same time.
MaxTasks == 2

\* Number of connectWallet calls the host has in progress at the same time.
MaxConnects == 1

\* Number of listener registrations the host holds at the same time.
MaxListeners == 2

Undefined == <<>>
Some(v) == <<v>>
Truthy(o) == o = Some(TRUE)

-----------------------------------------------------------------------------
(* The environment's values. *)

Accounts == {"0xA", "0xB"}
\* The account the wallet grants on connection; "0xB" is switched to later.
GrantedAccounts == {"0xA"}
ChainIds == {1, 9999}

CachedEthereumProviderStorageKey == "cachedEthereumProvider"
WalletConnectDataStorageKey == "walletconnect"

defaultNetworksList ==
    [c \in {1, 56, 250} |->
        [currency |-> CASE c = 1 -> "ETH" [] c = 56 -> "BNB" [] OTHER -> "FTM",
         rpc |-> CASE c = 1 -> "https://mainnet.infura.io/v3/9aa3d95b3bc440fa88ea12eaa4456161"
                   [] c = 56 -> "https://bsc-dataseed.binance.org/"
                   [] OTHER -> "https://rpc.ankr.com/fantom/"]]

\* getNetworksValue: the projection of one field over the registry.
getNetworksValue(key, list) == [c \in DOMAIN list |-> list[c][key]]

\* String.prototype.toLowerCase on the wallet keys in use.
toLowerCase(s) ==
    CASE s = "WalletConnect" -> "walletconnect"
      [] s = "MetaMask" -> "metamask"
      [] s = "CoinbaseWallet" -> "coinbasewallet"
      [] OTHER -> s

\* What an RPC node answers to getBalance(account) on a chain, in wei: a
\* distinct non-zero amount for every (account, chain) pair; the chain the
\* state calls -1 is the unsupported chain the wallet is on.
BalanceOf(account, chain) ==
    (IF account = "0xA" THEN 10000 ELSE 20000)
    + (IF chain = -1 THEN 9999 ELSE chain)

\* Web3.utils.fromWei / toWei on the wei representation of a balance.
fromWei(raw) == raw
toWei(balance) == balance

-----------------------------------------------------------------------------
(* The controller as a value: the synchronous methods are functions on it. *)

\* Besides the fields: the events emitted (log) and the listener calls made
\* (calls) so far in the running macrotask, and whether an exception thrown by
\* a listener is propagating (thrown).
World ==
    [state |-> state, data |-> data, storage |-> storage,
     listeners |-> eventListeners, poll |-> poll,
     handlers |-> handlers, interval |-> interval, blockSubs |-> blockSubs,
     log |-> <<>>, calls |-> <<>>, thrown |-> FALSE,
     modal |-> FALSE, announced |-> Undefined, announcedAccount |-> Undefined]

InitialState ==
    [connected |-> FALSE, loading |-> TRUE, balance |-> Undefined,
     accountChain |-> Undefined, accountChainValid |-> Undefined,
     balanceUpdating |-> Undefined]

InitialData ==
    [connectedWalletKey |-> Undefined, web3 |-> Undefined,
     ethereum |-> Undefined, accountAddress |-> Undefined]

Merge(upd, base) ==
    [k \in DOMAIN base |-> IF k \in DOMAIN upd THEN upd[k] ELSE base[k]]

\* BaseController.setState / setData / resetState(...preserved) / resetData.
\* A statement that follows a listener's throw is not executed.
setState(w, upd) == IF w.thrown THEN w ELSE [w EXCEPT !.state = Merge(upd, w.state)]
setData(w, upd) == IF w.thrown THEN w ELSE [w EXCEPT !.data = Merge(upd, w.data)]
resetState(w, preserved) ==
    [w EXCEPT !.state = [k \in DOMAIN InitialState |->
        IF k \in preserved THEN w.state[k] ELSE InitialState[k]]]
resetData(w) == [w EXCEPT !.data = InitialData]

\* Whether all of IEvmWalletData is present.
dataComplete(d) ==
    /\ d.ethereum # Undefined /\ d.web3 # Undefined
    /\ d.accountAddress # Undefined /\ d.connectedWalletKey # Undefined

\* Whether the payload of an event is what state and data hold.
payloadCurrent(w, event, args) ==
    CASE event = "networkChanged" -> w.state.accountChain = args[1]
      [] event = "balanceUpdated" -> w.state.balance = args[1]
      [] event = "accountChanged" -> w.data.accountAddress = args[1]
      [] event = "walletConnected" -> /\ w.data.accountAddress = args[1]
                                      /\ w.data.connectedWalletKey = args[2]
      [] OTHER -> TRUE

\* The listeners registered for an event, in order of registration.
listenersOf(w, event) ==
    IF event \in DOMAIN w.listeners THEN w.listeners[event] ELSE <<>>

\* The listeners that forEach gets to call: all of them, or those up to and
\* including the first one that throws.
invokedOf(ls) ==
    LET throwing == {i \in DOMAIN ls : ls[i].throws}
    IN IF throwing = {} THEN ls
       ELSE SubSeq(ls, 1, CHOOSE i \in throwing : \A j \in throwing : i <= j)

\* callEvent, lines 720-722: the listeners of the event are called with args
\* in order; an exception of a listener ends the loop and propagates.  The
\* log entry keeps what a listener that reads the controller finds at that
\* moment: state.connected, data.accountAddress, whether data is complete,
\* and whether the payload is what state and data hold.
callEvent(w, event, args) ==
    IF w.thrown THEN w
    ELSE LET ls == listenersOf(w, event)
             invoked == invokedOf(ls)
         IN [w EXCEPT !.log = Append(@, [event |-> event, args |-> args,
                                         connected |-> w.state.connected,
                                         account |-> w.data.accountAddress,
                                         complete |-> dataComplete(w.data),
                                         current |-> payloadCurrent(w, event, args)]),
                      !.calls = @ \o [i \in DOMAIN invoked |->
                                         [listener |-> invoked[i].id, event |-> event,
                                          args |-> args]],
                      !.thrown = \E i \in DOMAIN ls : ls[i].throws]

clearWalletSubscription(w) ==
    [w EXCEPT
        !.handlers = IF w.data.ethereum # Undefined
                     THEN @ \ {w.data.ethereum[1]} ELSE @,
        !.interval = FALSE,
        !.blockSubs = IF w.data.web3 # Undefined THEN @ \ {"current"} ELSE @]

disconnectWallet(w) ==
    LET isWc == w.data.connectedWalletKey # Undefined
                /\ toLowerCase(w.data.connectedWalletKey[1]) = "walletconnect"
        w1 == IF isWc THEN [w EXCEPT !.storage[WalletConnectDataStorageKey] = Undefined]
              ELSE w
        w2 == [w1 EXCEPT !.storage[CachedEthereumProviderStorageKey] = Undefined]
        w3 == clearWalletSubscription(w2)
        w4 == resetData(w3)
        w5 == resetState(w4, {"loading"})
    IN callEvent(w5, "walletDisconnected", <<>>)

createWalletSubscription(w) ==
    IF w.data.ethereum = Undefined THEN disconnectWallet(w)
    ELSE LET w1 == clearWalletSubscription(w)
         IN [w1 EXCEPT
                !.handlers = @ \cup {w1.data.ethereum[1]},
                !.interval = TRUE,
                !.blockSubs = IF w1.data.web3 # Undefined
                              THEN @ \cup {"current"} ELSE @]

-----------------------------------------------------------------------------
(* Suspended async calls.  A task holds the locals of the call that are    *)
(* live across its awaits, and two history fields: changed, whether the    *)
(* wallet was disconnected or state.accountChain took another value since  *)
(* a balance refresh started, and disconnected, whether disconnectWallet    *)
(* has run since the call started, and heard, the account of the last      *)
(* accountsChanged the provider emitted since the account request of a      *)
(* connectWallet call settled.                                              *)

Idle ==
    [kind |-> "idle", init |-> FALSE, stage |-> "none", walletKey |-> Undefined,
     account |-> Undefined, chain |-> Undefined, changeForChain |-> Undefined,
     correctAccountChain |-> Undefined, target |-> Undefined, changed |-> FALSE,
     disconnected |-> FALSE, heard |-> Undefined]

Suspended == BagToSet(tasks)
CanSuspend == BagCardinality(tasks) < MaxTasks

\* The connectWallet calls in progress.
connectsInFlight ==
    BagCardinality([t \in {u \in Suspended : u.kind = "connect"} |-> tasks[t]])

\* The tail of initController after its awaited connectWallet: lines 221-223
\* and 251-252.
initTail(w) == callEvent(setState(w, [loading |-> FALSE]), "controllerInitialized", <<>>)

\* A publication that stores the account address before walletConnected is
\* emitted: C5 does not hold of it.
connectPublishAddressFirst(w, t, bal) ==
    LET w1 == setState(w, [accountChain |-> t.correctAccountChain,
                           accountChainValid |-> Some(t.correctAccountChain[1] >= 0),
                           connected |-> TRUE,
                           balance |-> Some(bal)])
        w2 == callEvent(w1, "networkChanged", <<w1.state.accountChain>>)
        w3 == callEvent(w2, "balanceUpdated", <<w2.state.balance>>)
        w4 == setData(w3, [accountAddress |-> t.account])
        w5 == callEvent(w4, "walletConnected", <<t.account, t.walletKey>>)
    IN callEvent(w5, "accountChanged", <<t.account>>)

\* connectWallet lines 337-353: the connection is published.
connectPublish(w, t, bal) ==
    LET w1 == setState(w, [accountChain |-> t.correctAccountChain,
                           accountChainValid |-> Some(t.correctAccountChain[1] >= 0),
                           connected |-> TRUE,
                           balance |-> Some(bal)])
        w2 == callEvent(w1, "networkChanged", <<w1.state.accountChain>>)
        w3 == callEvent(w2, "balanceUpdated", <<w2.state.balance>>)
        w4 == callEvent(w3, "walletConnected", <<t.account, t.walletKey>>)
        w5 == setData(w4, [accountAddress |-> t.account])
    IN callEvent(w5, "accountChanged", <<t.account>>)

\* A catch block that tears the subscriptions down but keeps data: C2 does
\* not hold of it.
connectCatchKeepsData(w) ==
    callEvent(resetState(clearWalletSubscription(w), {"loading"}), "walletDisconnected", <<>>)

\* connectWallet lines 354-360: the catch block.
connectCatch(w) == disconnectWallet(w)

\* walletAccountsSubscription lines 549-555.
accountsStale(w, t) == ~w.state.connected \/ t.changeForChain # w.state.accountChain
accountsCommit(w, t, bal) ==
    IF accountsStale(w, t) THEN w
    ELSE LET w1 == setState(w, [balance |-> Some(bal)])
             w2 == setData(w1, [accountAddress |-> t.account])
             w3 == callEvent(w2, "balanceUpdated", <<w2.state.balance>>)
         IN callEvent(w3, "accountChanged", <<t.account>>)

\* walletChainSubscription lines 596-605.
chainStale(w, t) == ~w.state.connected
chainCommit(w, t, bal) ==
    IF chainStale(w, t) THEN w
    ELSE LET w1 == setState(w, [accountChain |-> t.chain,
                                accountChainValid |-> Some(t.chain[1] >= 0),
                                balance |-> Some(bal)])
             w2 == callEvent(w1, "networkChanged", <<w1.state.accountChain>>)
         IN callEvent(w2, "balanceUpdated", <<w2.state.balance>>)

\* walletBalanceSubscription lines 627-638.
balanceStale(w, t) == ~w.state.connected \/ t.changeForChain # w.state.accountChain
balanceCommit(w, t, bal) ==
    IF balanceStale(w, t) THEN setState(w, [balanceUpdating |-> Some(FALSE)])
    ELSE LET w1 == callEvent(w, "balanceUpdated", <<Some(bal)>>)
         IN setState(w1, [balance |-> Some(bal), balanceUpdating |-> Some(FALSE)])

\* connectWallet lines 337-360: the publication inside the try block; what a
\* listener throws there is caught.
connectTry(w, t, bal) ==
    LET w1 == connectPublish(w, t, bal)
    IN IF w1.thrown
       THEN [w |-> connectCatch([w1 EXCEPT !.thrown = FALSE]), ret |-> "false"]
       ELSE [w |-> w1, ret |-> "true"]

\* The code of a call after its awaited getAccountBalance resolved with bal.
Resolved(w, t, bal) ==
    CASE t.kind = "connect" -> connectTry(w, t, bal)
      [] t.kind = "accounts" -> [w |-> accountsCommit(w, t, bal), ret |-> "void"]
      [] t.kind = "chain" -> [w |-> chainCommit(w, t, bal), ret |-> "void"]
      [] OTHER -> [w |-> balanceCommit(w, t, bal), ret |-> "void"]

\* The code of a call after an awaited promise rejected: connectWallet
\* catches, the subscription handlers have no try and reject in turn.
Rejected(w, t) ==
    IF t.kind = "connect" THEN [w |-> connectCatch(w), ret |-> "false"]
    ELSE [w |-> w, ret |-> "rejected"]

-----------------------------------------------------------------------------
(* getAccountBalance, lines 446-490. *)

\* Line 447: the early return of zero.
balanceEarlyReturn(w, t) ==
    w.data.web3 = Undefined \/ t.chain = Undefined \/ t.account = Undefined

\* getRacePromise's timer, lines 455-461: the last published balance when the
\* chain is still targetChain, "0" otherwise.
racePromise(w, targetChain) ==
    IF w.state.accountChain = targetChain
    THEN toWei(IF w.state.balance = Undefined THEN 0 ELSE w.state.balance[1])
    ELSE 0

FetchOutcomes == {"value", "zero", "reject", "timeout"}

\* Lines 465-470: rawBalance after the race of the wallet's getBalance
\* against the 3 s timer; a rejection is swallowed and leaves "0".
primaryRaw(w, t, outcome) ==
    CASE outcome = "value" -> BalanceOf(t.account[1], t.chain[1])
      [] outcome = "timeout" -> racePromise(w, t.target)
      [] OTHER -> 0

\* Line 473: the RPC URL of the chain, if the registry has one.
hasRpcUrl(chain) == chain \in DOMAIN getNetworksValue("rpc", networksList)

\* Lines 479-482: rawBalance after the race of the direct RPC request against
\* the 5 s timer, whose targetChain (t.target by now) is the chain at the time
\* the direct request was made (outcome is not "reject": that one throws).
fallbackRaw(w, t, outcome) ==
    CASE outcome = "value" -> BalanceOf(t.account[1], t.chain[1])
      [] outcome = "timeout" -> racePromise(w, t.target)
      [] OTHER -> 0

\* Whether the direct request is made, once the first race left rawBalance:
\* lines 472-475.
reachesFallback(rawBalance, t) == rawBalance = 0 /\ hasRpcUrl(t.chain[1])

\* Lines 479-489: how the call settles when the second race ends as outcome.
\* That race is awaited outside the try block.
getAccountBalanceFallback(w, t, outcome) ==
    IF outcome = "reject" THEN [thrown |-> TRUE, balance |-> 0]
    ELSE [thrown |-> FALSE, balance |-> fromWei(fallbackRaw(w, t, outcome))]

\* The caller's code after the await.
afterBalance(w, t, got) ==
    LET r == IF got.thrown THEN Rejected(w, t) ELSE Resolved(w, t, got.balance)
    IN [w |-> r.w, ret |-> r.ret, task |-> Idle]

\* Lines 465-482, the call past its early return when its first race ends
\* as primary: it returns to its caller, or makes the direct request, races
\* it against a 5 s timer whose targetChain is the chain now, and waits again.
getAccountBalance(w, t, primary) ==
    LET rawBalance == primaryRaw(w, t, primary) IN
    IF reachesFallback(rawBalance, t)
    THEN [w |-> w, ret |-> "pending",
          task |-> [t EXCEPT !.stage = "fallback", !.target = w.state.accountChain]]
    ELSE afterBalance(w, t, [thrown |-> FALSE, balance |-> fromWei(rawBalance)])

\* A call reaches its await of getAccountBalance(t.account, t.chain): it
\* either goes on at once with zero or suspends.
awaitBalance(w, t) ==
    IF balanceEarlyReturn(w, t)
    THEN LET r == Resolved(w, t, fromWei(0))
         IN [w |-> r.w, ret |-> r.ret, task |-> Idle]
    ELSE [w |-> w, ret |-> "pending",
          task |-> [t EXCEPT !.stage = "balance", !.target = w.state.accountChain]]

-----------------------------------------------------------------------------
(* Committing a step. *)

\* The results worth keeping in last: a promise that settled with a value or
\* a rejection, and what walletBalanceSubscription did ("void" and "pending"
\* of the other calls are not kept).
Settled == {"true", "false", "rejected"}
Kept(op, ret) == ret \in Settled \/ op = "walletBalanceSubscription"

\* How an operation that ended in w with ret ends: when an exception is
\* propagating, it throws, and its promise, if it has one, rejects.
Outcome(w, ret) == IF w.thrown THEN "rejected" ELSE ret

\* The step from the current state to w disconnected the wallet or moved the
\* chain.
Changes(w) ==
    \/ state.connected /\ ~w.state.connected
    \/ w.state.accountChain # state.accountChain

noteChanged(t) ==
    IF t.kind = "balance" THEN [t EXCEPT !.changed = TRUE] ELSE t

\* The step to w ran disconnectWallet.
Disconnects(w) == \E i \in DOMAIN w.log : w.log[i].event = "walletDisconnected"

noteDisconnected(t) == [t EXCEPT !.disconnected = TRUE]

\* The provider emitted accountsChanged with account in this step.
noteHeard(t, account) ==
    IF t.kind = "connect" /\ t.stage \in {"chainId", "balance", "fallback"}
    THEN [t EXCEPT !.heard = account] ELSE t

\* The suspended calls ts with what the step to w means for their history.
Noted(w, ts) ==
    LET ts1 == IF Changes(w) THEN BagOfAll(noteChanged, ts) ELSE ts
        ts2 == IF Disconnects(w) THEN BagOfAll(noteDisconnected, ts1) ELSE ts1
    IN IF w.announcedAccount # Undefined
       THEN BagOfAll(LAMBDA t : noteHeard(t, w.announcedAccount), ts2)
       ELSE ts2

\* The chain the wallet last announced by a chainChanged that the handler
\* took up (-1: an unsupported one), since the connection was published and
\* as long as no walletChainSubscription call has failed.
Delivered(op, ret, w) ==
    IF \/ ~w.state.connected
       \/ op = "connectWallet"
       \/ op = "walletChainSubscription" /\ ret = "rejected"
    THEN Undefined
    ELSE IF w.announced # Undefined THEN w.announced
    ELSE delivered

Commit(op, ret, w, ts) ==
    /\ state' = w.state
    /\ data' = w.data
    /\ storage' = w.storage
    /\ eventListeners' = w.listeners
    /\ poll' = w.poll
    /\ handlers' = w.handlers
    /\ interval' = w.interval
    /\ blockSubs' = w.blockSubs
    /\ tasks' = Noted(w, ts)
    /\ delivered' = Delivered(op, Outcome(w, ret), w)
    /\ last' = [op |-> IF Kept(op, Outcome(w, ret)) THEN op ELSE "none",
                ret |-> IF Kept(op, Outcome(w, ret)) THEN Outcome(w, ret) ELSE "none",
                log |-> w.log, calls |-> w.calls, modal |-> w.modal]

\* The call t (Idle: a new call) took a step with result r = [w, ret, task]:
\* it leaves the bag, and enters it again if it is still suspended.  When a
\* connectWallet awaited by initController returns, initController goes on:
\* what a listener throws in its tail rejects initController's promise, not
\* the connectWallet's, which has resolved.
Step(op, t, r, pc) ==
    LET done == r.task.kind = "idle"
        back == done /\ t.kind = "connect" /\ t.init
        tail == back /\ ~r.w.thrown
        w == IF tail THEN initTail(r.w) ELSE r.w
        rest == IF t.kind = "idle" THEN tasks ELSE tasks (-) SetToBag({t})
    IN /\ t.kind = "idle" /\ ~done => CanSuspend
       /\ Commit(op, r.ret, IF tail THEN [w EXCEPT !.thrown = FALSE] ELSE w,
                 IF done THEN rest ELSE rest (+) SetToBag({r.task}))
       /\ initCall' = IF back
                      THEN [pc |-> IF w.thrown THEN "rejected" ELSE "resolved",
                            cachedProvider |-> Undefined]
                      ELSE [initCall EXCEPT !.pc = pc]
       /\ initEmits' = IF tail THEN initEmits + 1 ELSE initEmits
       /\ UNCHANGED <<networksList, modalKey>>

-----------------------------------------------------------------------------
(* connectWallet, lines 304-361. *)

\* The host uses the controller once initController has settled (the README
\* initialises it first and keeps the button disabled meanwhile).
HostReady == initCall.pc \in {"resolved", "rejected"}

NewTask(kind) == [Idle EXCEPT !.kind = kind]

\* Line 316, new Web3(ethereum): data.web3 becomes a fresh instance, and a
\* subscription of the instance it held stays with that instance.
newWeb3(w, ethereum) ==
    setData([w EXCEPT !.blockSubs = IF "current" \in @
                                    THEN (@ \ {"current"}) \cup {"leaked"} ELSE @],
            [web3 |-> ethereum])

\* Lines 308-320, up to the await of requestConnectOrGetAccounts.
connectStart(w, ethereum, walletKey, fromInit) ==
    IF ethereum = Undefined
    THEN [w |-> [w EXCEPT !.storage[CachedEthereumProviderStorageKey] = Undefined],
          ret |-> "false", task |-> Idle]
    ELSE LET w1 == setData(newWeb3(w, ethereum),
                           [ethereum |-> ethereum,
                            connectedWalletKey |-> Some(walletKey)])
         IN [w |-> createWalletSubscription(w1), ret |-> "pending",
             task |-> [NewTask("connect") EXCEPT !.init = fromInit,
                          !.stage = "accounts", !.walletKey = Some(walletKey)]]

\* Line 332: the chain id kept for the state, -1 when it is falsy or unknown.
correctAccountChainOf(accountChain) ==
    IF accountChain # Undefined /\ accountChain[1] # 0
    THEN IF accountChain[1] \in DOMAIN networksList THEN accountChain[1] ELSE -1
    ELSE -1

\* Lines 331-335 with the result of getChainId (Undefined when data.web3 is
\* gone and the optional call yields undefined).
connectChain(w, t, accountChain) ==
    awaitBalance(w, [t EXCEPT !.chain = accountChain,
                        !.correctAccountChain = Some(correctAccountChainOf(accountChain))])

\* Lines 320-331: requestConnectOrGetAccounts settled with accounts
\* (Undefined: it rejected); on success the key is cached and the chain id
\* requested.
connectAccounts(w, t, rejected, accounts) ==
    IF rejected \/ accounts = <<>>
    THEN LET r == Rejected(w, t) IN [w |-> r.w, ret |-> r.ret, task |-> Idle]
    ELSE LET w1 == [w EXCEPT !.storage[CachedEthereumProviderStorageKey] = t.walletKey]
             t1 == [t EXCEPT !.account = Some(accounts[1])]
         IN IF w1.data.web3 = Undefined
            THEN connectChain(w1, t1, Undefined)
            ELSE [w |-> w1, ret |-> "pending", task |-> [t1 EXCEPT !.stage = "chainId"]]

\* The host (the connection dialog) calls connectWallet.
HostPairs == {<<Some("injected"), "MetaMask">>, <<Undefined, "MetaMask">>}

\* connectWallet(pair[1], pair[2]) is called.
connectWalletCall(pair) ==
    /\ HostReady
    /\ connectsInFlight < MaxConnects
    /\ Step("connectWallet", Idle, connectStart(World, pair[1], pair[2], FALSE),
            initCall.pc)

ConnectWallet == \E pair \in HostPairs : connectWalletCall(pair)

\* A dialog that offers two wallets, each with a provider of its own: the
\* injected one and a WalletConnect bridge.
ProviderPairs == {<<Some("injected"), "MetaMask">>, <<Some("bridge"), "WalletConnect">>}

ConnectEitherWallet == \E pair \in ProviderPairs : connectWalletCall(pair)

\* requestConnectOrGetAccounts (lines 497-521) settles: with a list of
\* accounts, possibly empty, or by rejecting.
AccountsSettle ==
    \E t \in Suspended, rejected \in BOOLEAN,
       accounts \in {<<>>} \cup {<<a>> : a \in GrantedAccounts} :
        /\ t.kind = "connect" /\ t.stage = "accounts"
        /\ rejected => accounts = <<>>
        /\ Step("connectWallet", t, connectAccounts(World, t, rejected, accounts),
                initCall.pc)

\* web3.eth.getChainId settles.
ChainIdSettle ==
    \E t \in Suspended, rejected \in BOOLEAN, chainId \in ChainIds :
        /\ t.kind = "connect" /\ t.stage = "chainId"
        /\ rejected => chainId = 1
        /\ Step("connectWallet", t,
                IF rejected
                THEN LET r == Rejected(World, t)
                     IN [w |-> r.w, ret |-> r.ret, task |-> Idle]
                ELSE connectChain(World, t, Some(chainId)),
                initCall.pc)

-----------------------------------------------------------------------------
(* An awaited getAccountBalance settles. *)

OpOf(t) ==
    CASE t.kind = "connect" -> "connectWallet"
      [] t.kind = "accounts" -> "walletAccountsSubscription"
      [] t.kind = "chain" -> "walletChainSubscription"
      [] OTHER -> "walletBalanceSubscription"

\* The race of the wallet's getBalance against the 3 s timer settles.
BalanceSettle ==
    \E t \in Suspended, primary \in FetchOutcomes :
        /\ t.stage = "balance"
        /\ Step(OpOf(t), t, getAccountBalance(World, t, primary), initCall.pc)

\* The race of the direct RPC request against the 5 s timer settles.
FallbackSettle ==
    \E t \in Suspended, fallback \in FetchOutcomes :
        /\ t.stage = "fallback"
        /\ Step(OpOf(t), t,
                afterBalance(World, t, getAccountBalanceFallback(World, t, fallback)),
                initCall.pc)

-----------------------------------------------------------------------------
(* The subscription handlers, lines 531-648, up to their first await. *)

\* walletAccountsSubscription(accounts), lines 531-547; accounts0 is
\* accounts[0].
accountsStart(w, accounts0) ==
    IF accounts0 = w.data.accountAddress \/ ~w.state.connected
    THEN [w |-> w, ret |-> "void", task |-> Idle]
    ELSE IF accounts0 = Undefined
    THEN [w |-> disconnectWallet(w), ret |-> "void", task |-> Idle]
    ELSE awaitBalance(w, [NewTask("accounts") EXCEPT
                             !.account = accounts0,
                             !.chain = w.state.accountChain,
                             !.changeForChain = w.state.accountChain])

\* A chain id as the provider passes it: a hexadecimal ("0x38") or a decimal
\* ("56") numeral, kept as its radix and its digits.
ChainInputs ==
    {[radix |-> 16, digits |-> <<3, 8>>], [radix |-> 10, digits |-> <<2, 5, 0>>],
     [radix |-> 16, digits |-> <<2, 7, 0, 15>>], [radix |-> 10, digits |-> <<0>>]}

RECURSIVE NumeralValue(_, _)
NumeralValue(radix, digits) ==
    IF digits = <<>> THEN 0
    ELSE NumeralValue(radix, SubSeq(digits, 1, Len(digits) - 1)) * radix
         + digits[Len(digits)]

\* Lines 569-571: parseInt(chain, 16) for "0x..", Number(chain) otherwise.
correctChainOf(chain) == NumeralValue(chain.radix, chain.digits)

\* A handler whose unsupported-chain branch keeps the balance of the chain
\* left: C14 does not hold of it.
chainStartKeepsBalance(w, chain) ==
    LET correctChain == correctChainOf(chain) IN
    IF ~w.state.connected \/ correctChain = 0
    THEN [w |-> w, ret |-> "void", task |-> Idle]
    ELSE IF correctChain \notin DOMAIN networksList
    THEN LET w0 == [w EXCEPT !.announced = Some(-1)]
             w1 == setState(w0, [accountChain |-> Some(-1),
                                 accountChainValid |-> Some(FALSE)])
             w2 == callEvent(w1, "networkChanged", <<w1.state.accountChain>>)
         IN [w |-> callEvent(w2, "balanceUpdated", <<w2.state.balance>>),
             ret |-> "void", task |-> Idle]
    ELSE awaitBalance([w EXCEPT !.announced = Some(correctChain)],
                      [NewTask("chain") EXCEPT
                          !.account = w.data.accountAddress,
                          !.chain = Some(correctChain)])

\* walletChainSubscription(chain), lines 566-594.
chainStart(w, chain) ==
    LET correctChain == correctChainOf(chain) IN
    IF ~w.state.connected \/ correctChain = 0
    THEN [w |-> w, ret |-> "void", task |-> Idle]
    ELSE IF correctChain \notin DOMAIN networksList
    THEN LET w0 == [w EXCEPT !.announced = Some(-1)]
             w1 == setState(w0, [balance |-> Some(0), accountChain |-> Some(-1),
                                 accountChainValid |-> Some(FALSE)])
             w2 == callEvent(w1, "networkChanged", <<w1.state.accountChain>>)
         IN [w |-> callEvent(w2, "balanceUpdated", <<w2.state.balance>>),
             ret |-> "void", task |-> Idle]
    ELSE awaitBalance([w EXCEPT !.announced = Some(correctChain)],
                      [NewTask("chain") EXCEPT
                          !.account = w.data.accountAddress,
                          !.chain = Some(correctChain)])

\* A guard that lets every call through: C10 does not hold of it.
balanceGuardOpen(w) == FALSE

\* Line 617: the guard of walletBalanceSubscription.
balanceGuard(w) == Truthy(w.state.balanceUpdating)

\* walletBalanceSubscription, lines 616-625.
balanceStart(w) ==
    IF balanceGuard(w) THEN [w |-> w, ret |-> "void", task |-> Idle]
    ELSE LET w1 == setState(w, [balanceUpdating |-> Some(TRUE)])
         IN awaitBalance(w1, [NewTask("balance") EXCEPT
                                 !.account = w1.data.accountAddress,
                                 !.chain = w1.state.accountChain,
                                 !.changeForChain = w1.state.accountChain])

\* walletConnectDisconnectSubscription, lines 646-648.
walletConnectDisconnectSubscription(w) ==
    IF w.data.connectedWalletKey # Undefined
       /\ toLowerCase(w.data.connectedWalletKey[1]) = "walletconnect"
    THEN disconnectWallet(w) ELSE w

\* A handler is called.
Handler(op, r) == Step(op, Idle, r, initCall.pc)

\* A provider on which the handlers are registered emits accountsChanged.
AccountsChanged ==
    \E accounts0 \in {Undefined} \cup {Some(a) : a \in Accounts} :
        /\ handlers # {}
        /\ Handler("walletAccountsSubscription",
                   accountsStart([World EXCEPT !.announcedAccount = accounts0], accounts0))

\* ... emits chainChanged.
ChainChanged ==
    \E chain \in ChainInputs :
        /\ handlers # {}
        /\ Handler("walletChainSubscription", chainStart(World, chain))

\* ... emits disconnect.
ProviderDisconnect ==
    /\ handlers # {}
    /\ Handler("walletConnectDisconnectSubscription",
               [w |-> walletConnectDisconnectSubscription(World), ret |-> "void",
                task |-> Idle])

\* The 5 s interval timer fires.
BalanceTick ==
    /\ interval
    /\ Handler("walletBalanceSubscription", balanceStart(World))

\* A newBlockHeaders notification arrives.
NewBlockHeader ==
    /\ blockSubs # {}
    /\ Handler("walletBalanceSubscription", balanceStart(World))

-----------------------------------------------------------------------------
(* initController, lines 173-253, and the other public methods. *)

\* getInstalledWallets (src/package/utils/get-installed-wallets.ts): the
\* wallets of an injected root provider, as a map from wallet key to
\* provider handle.
InjectedRoots ==
    {[providerMap |-> Undefined, isMetaMask |-> m, isCoinbaseWallet |-> c,
      isCoinbaseBrowser |-> b] :
        m \in BOOLEAN, c \in BOOLEAN, b \in BOOLEAN}

EmptyMap == [k \in {} |-> "injected"]

getInstalledWallets(provider) ==
    IF provider = Undefined THEN EmptyMap
    ELSE IF provider[1].providerMap # Undefined THEN provider[1].providerMap[1]
    ELSE IF provider[1].isMetaMask THEN [k \in {"MetaMask"} |-> "injected"]
    ELSE IF provider[1].isCoinbaseWallet \/ provider[1].isCoinbaseBrowser
    THEN [k \in {"CoinbaseWallet"} |-> "injected"]
    ELSE EmptyMap

\* initController returns without a connection attempt.
InitReturn(w) ==
    /\ Commit("initController", "void", w, tasks)
    /\ initCall' = [pc |-> IF w.thrown THEN "rejected" ELSE "resolved",
                    cachedProvider |-> Undefined]
    /\ initEmits' = initEmits + 1

\* initController suspends at an await.
InitAwait(w, pc, cachedProvider) ==
    /\ Commit("initController", "pending", w, tasks)
    /\ initCall' = [pc |-> pc, cachedProvider |-> cachedProvider]
    /\ UNCHANGED initEmits

\* initController calls connectWallet and awaits it (lines 219 and 249).
InitConnect(w, ethereum) ==
    Step("connectWallet", Idle,
         connectStart(w, ethereum, initCall.cachedProvider[1], TRUE), "connecting")

\* waitingEthereumPromise (src/unnamed/part_000): the number of polls after
\* which it gives up.
MaxAttempts == 10

\* Lines 7-9 of it: the call starts the 100 ms timer.
waitingEthereumPromise(w) == [w EXCEPT !.poll = [attempts |-> 0, live |-> TRUE]]

\* A callback that leaves the timer running when it has found the provider:
\* C26 does not hold of it.
pollTickKeepsInterval(p, ethereum) ==
    IF p.attempts + 1 > MaxAttempts
    THEN [poll |-> [attempts |-> p.attempts + 1, live |-> FALSE],
          resolves |-> TRUE, value |-> Undefined]
    ELSE IF ethereum # Undefined
    THEN [poll |-> [attempts |-> p.attempts + 1, live |-> TRUE],
          resolves |-> TRUE, value |-> ethereum]
    ELSE [poll |-> [attempts |-> p.attempts + 1, live |-> TRUE],
          resolves |-> FALSE, value |-> Undefined]

\* Lines 9-26 of it: the timer's callback, which finds window.ethereum as
\* ethereum; whether it calls resolve, and with what.
pollTick(p, ethereum) ==
    IF p.attempts + 1 > MaxAttempts
    THEN [poll |-> [attempts |-> p.attempts + 1, live |-> FALSE],
          resolves |-> TRUE, value |-> Undefined]
    ELSE IF ethereum # Undefined
    THEN [poll |-> [attempts |-> p.attempts + 1, live |-> FALSE],
          resolves |-> TRUE, value |-> ethereum]
    ELSE [poll |-> [attempts |-> p.attempts + 1, live |-> TRUE],
          resolves |-> FALSE, value |-> Undefined]

\* The modal keys a host passes: the key of its connection dialog, or the
\* empty string when it has none.
ModalKeys == {"web3-connect", ""}

\* Lines 179-211: initController(key), up to its first await.
initController(key) ==
    /\ initCall.pc = "idle"
    /\ modalKey' = Some(key)
    /\ UNCHANGED networksList
    /\ LET w == setState(World, [loading |-> TRUE])
           cachedProvider == w.storage[CachedEthereumProviderStorageKey]
       IN IF cachedProvider = Undefined
          THEN InitReturn(initTail(w))
          ELSE IF toLowerCase(cachedProvider[1]) = "walletconnect"
          THEN IF w.storage[WalletConnectDataStorageKey] = Undefined
               THEN InitReturn(callEvent(
                        [w EXCEPT !.storage[CachedEthereumProviderStorageKey] = Undefined],
                        "controllerInitialized", <<>>))
               ELSE InitAwait(w, "handshake", cachedProvider)
          ELSE InitAwait(waitingEthereumPromise(w), "waitEthereum", cachedProvider)

\* The host with a connection dialog initialises the controller.
InitController == initController("web3-connect")

\* A host with or without a dialog does.
InitControllerAnyKey == \E key \in ModalKeys : initController(key)

\* Lines 217-219: walletConnectEthereumProvider.connect() settles; nothing
\* catches its rejection.
HandshakeSettle ==
    \E rejected \in BOOLEAN :
        /\ initCall.pc = "handshake"
        /\ IF rejected
           THEN /\ Commit("initController", "rejected", World, tasks)
                /\ initCall' = [pc |-> "rejected", cachedProvider |-> Undefined]
                /\ UNCHANGED <<initEmits, networksList, modalKey>>
           ELSE InitConnect(World, Some("bridge"))

\* Lines 227-249: waitingEthereumPromise has resolved, with the injected root
\* provider or with undefined, and initController goes on.
WaitEthereumSettle(w, walletEthereumProvider) ==
    LET wallets == getInstalledWallets(walletEthereumProvider)
    IN IF walletEthereumProvider = Undefined
          \/ initCall.cachedProvider[1] \notin DOMAIN wallets
       THEN InitReturn(initTail(w)) /\ UNCHANGED <<networksList, modalKey>>
       ELSE InitConnect(w, Some(wallets[initCall.cachedProvider[1]]))

\* The 100 ms timer of waitingEthereumPromise fires while window.ethereum is
\* ethereum.  A resolve of the promise is followed at once by the code that
\* awaits it; a second resolve would do nothing.
pollTickWith(ethereum) ==
    /\ poll.live
    /\ LET r == pollTick(poll, ethereum)
           w == [World EXCEPT !.poll = r.poll]
       IN IF r.resolves /\ initCall.pc = "waitEthereum"
          THEN WaitEthereumSettle(w, r.value)
          ELSE /\ Commit("waitingEthereumPromise", "pending", w, tasks)
               /\ UNCHANGED <<initCall, initEmits, networksList, modalKey>>

PollTick ==
    \E ethereum \in {Undefined} \cup {Some(p) : p \in InjectedRoots} :
        pollTickWith(ethereum)

\* A call that skips the loading check of line 266: C15 does not hold of it.
callWalletActionWhileLoading(w, forceDisconnect) ==
    IF w.state.connected \/ forceDisconnect THEN disconnectWallet(w)
    ELSE IF modalKey # Undefined /\ modalKey # Some("") /\ ~w.state.connected
    THEN [w EXCEPT !.modal = TRUE]
    ELSE w

\* callWalletAction(forceDisconnect), lines 259-269.
callWalletAction(w, forceDisconnect) ==
    IF w.state.connected \/ forceDisconnect THEN disconnectWallet(w)
    ELSE IF w.state.loading THEN w
    ELSE IF modalKey # Undefined /\ modalKey # Some("") /\ ~w.state.connected
    THEN [w EXCEPT !.modal = TRUE]
    ELSE w

callWalletActionCall(forceDisconnect) ==
    LET w == callWalletAction(World, forceDisconnect) IN
    /\ HostReady
    /\ Commit("callWalletAction", "void", w, tasks)
    /\ UNCHANGED <<initCall, initEmits, networksList, modalKey>>

CallWalletAction == \E forceDisconnect \in BOOLEAN : callWalletActionCall(forceDisconnect)

\* requireNetworkChange(chainId), lines 277-284: up to the await of the
\* wallet_switchEthereumChain request.
requireNetworkChange(w) ==
    IF w.data.ethereum = Undefined THEN [w |-> w, ret |-> "false", task |-> Idle]
    ELSE [w |-> w, ret |-> "pending",
          task |-> [NewTask("switch") EXCEPT !.stage = "switch"]]

\* A call that publishes the chain it asked for once the wallet has agreed
\* (chain 56 here): C16 does not hold of it.
switchSettledPublishes(w, rejected) ==
    IF rejected THEN [w |-> w, ret |-> "false", task |-> Idle]
    ELSE [w |-> setState(w, [accountChain |-> Some(56)]), ret |-> "true", task |-> Idle]

\* Lines 284-293: the request settled.
switchSettled(w, rejected) ==
    [w |-> w, ret |-> IF rejected THEN "false" ELSE "true", task |-> Idle]

RequireNetworkChange ==
    /\ HostReady
    /\ Step("requireNetworkChange", Idle, requireNetworkChange(World), initCall.pc)

\* The wallet answers the switch request of the call t.
switchSettle(t, rejected) ==
    /\ t.stage = "switch"
    /\ Step("requireNetworkChange", t, switchSettled(World, rejected), initCall.pc)

SwitchSettle == \E t \in Suspended, rejected \in BOOLEAN : switchSettle(t, rejected)

-----------------------------------------------------------------------------
(* The listeners, lines 675-722. *)

\* The events the host listens to.
ListenerEvents == {"walletConnected", "controllerInitialized"}

\* The functions the host uses as listeners: id is the function object, text
\* what String(fn) gives (its source text).  L1 and L2 are two functions made
\* from the same source text; L3 throws when called.
Listeners ==
    {[id |-> "L1", text |-> "() => refresh()", throws |-> FALSE],
     [id |-> "L2", text |-> "() => refresh()", throws |-> FALSE],
     [id |-> "L3", text |-> "() => { throw 0 }", throws |-> TRUE]}

\* The registrations held, over all events.
RECURSIVE registrations(_, _)
registrations(ls, events) ==
    IF events = {} THEN 0
    ELSE LET e == CHOOSE x \in events : TRUE
         IN Len(ls[e]) + registrations(ls, events \ {e})

\* addEventListener(event, listener), lines 675-687.
addEventListener(w, event, listener) ==
    LET w1 == IF event = "walletConnected" /\ w.state.connected
              THEN callEvent(w, "walletConnected",
                             <<w.data.accountAddress, w.data.connectedWalletKey>>)
              ELSE w
        w2 == IF event = "controllerInitialized" /\ ~w1.state.loading
              THEN callEvent(w1, "controllerInitialized", <<>>)
              ELSE w1
    IN IF w2.thrown THEN w2
       ELSE IF \E i \in DOMAIN w2.listeners[event] : w2.listeners[event][i].text = event
       THEN w2
       ELSE [w2 EXCEPT !.listeners[event] = Append(@, listener)]

\* removeEventListener(event, listener), lines 696-700.
removeEventListener(w, event, listener) ==
    [w EXCEPT !.listeners[event] = SelectSeq(@, LAMBDA fn : fn.text # listener.text)]

\* removeEventListeners(event), lines 708-711; no event: all of them.
removeEventListeners(w, event) ==
    IF event = Undefined
    THEN [w EXCEPT !.listeners = [e \in ListenerEvents |-> <<>>]]
    ELSE [w EXCEPT !.listeners[event[1]] = <<>>]

\* A call of one of the three, by the host.
listenerCall(op, w) ==
    /\ Commit(op, "void", w, tasks)
    /\ UNCHANGED <<initCall, initEmits, networksList, modalKey>>

addEventListenerCall(event, listener) ==
    /\ registrations(eventListeners, ListenerEvents) < MaxListeners
    /\ listenerCall("addEventListener", addEventListener(World, event, listener))

AddEventListener ==
    \E event \in ListenerEvents, listener \in Listeners :
        addEventListenerCall(event, listener)

removeEventListenerCall(event, listener) ==
    listenerCall("removeEventListener", removeEventListener(World, event, listener))

RemoveEventListener ==
    \E event \in ListenerEvents, listener \in Listeners :
        removeEventListenerCall(event, listener)

RemoveEventListeners ==
    \E event \in {Undefined} \cup {Some(e) : e \in ListenerEvents} :
        listenerCall("removeEventListeners", removeEventListeners(World, event))

\* The registries the host may install: the default one, and one without
\* chain 1.
NetworkLists ==
    {defaultNetworksList, [c \in {56, 250} |-> defaultNetworksList[c]]}

\* setNetworksList(networksList), lines 158-160.
SetNetworksList ==
    \E list \in NetworkLists :
        /\ networksList' = list
        /\ Commit("setNetworksList", "void", World, tasks)
        /\ UNCHANGED <<initCall, initEmits, modalKey>>

-----------------------------------------------------------------------------

EmptyStorage ==
    [k \in {CachedEthereumProviderStorageKey, WalletConnectDataStorageKey} |-> Undefined]

StorageInit ==
    {[EmptyStorage EXCEPT ![CachedEthereumProviderStorageKey] = c,
                          ![WalletConnectDataStorageKey] = wc] :
        c \in {Undefined, Some("MetaMask"), Some("WalletConnect")},
        wc \in {Undefined, Some("session")}}

\* The constructor, lines 126-140.
Constructed ==
    /\ state = InitialState
    /\ data = InitialData
    /\ networksList = defaultNetworksList
    /\ modalKey = Undefined
    /\ eventListeners = [e \in ListenerEvents |-> <<>>]
    /\ handlers = {}
    /\ interval = FALSE
    /\ blockSubs = {}
    /\ tasks = EmptyBag
    /\ initCall = [pc |-> "idle", cachedProvider |-> Undefined]
    /\ poll = [attempts |-> 0, live |-> FALSE]
    /\ initEmits = 0
    /\ delivered = Undefined
    /\ last = [op |-> "none", ret |-> "none", log |-> <<>>, calls |-> <<>>,
               modal |-> FALSE]

\* A first visit: localStorage holds nothing.
Init == Constructed /\ storage = EmptyStorage

\* The session of a page: the controller is initialised, then the host
\* connects and disconnects while the timers of the subscription run.
Next ==
    \/ InitController
    \/ ConnectWallet
    \/ AccountsSettle
    \/ ChainIdSettle
    \/ BalanceSettle
    \/ FallbackSettle
    \/ CallWalletAction
    \/ ProviderDisconnect
    \/ BalanceTick
    \/ NewBlockHeader

Spec == Init /\ [][Next]_vars

\* A connected session in which the user switches accounts in the wallet.
NextAccounts ==
    \/ InitController
    \/ ConnectWallet
    \/ AccountsSettle
    \/ ChainIdSettle
    \/ BalanceSettle
    \/ FallbackSettle
    \/ AccountsChanged
    \/ BalanceTick

SpecAccounts == Init /\ [][NextAccounts]_vars

\* A connected session in which the user switches chains in the wallet.
NextChain ==
    \/ InitController
    \/ ConnectWallet
    \/ AccountsSettle
    \/ ChainIdSettle
    \/ BalanceSettle
    \/ FallbackSettle
    \/ ChainChanged
    \/ BalanceTick

SpecChain == Init /\ [][NextChain]_vars

\* A later visit: localStorage holds what earlier sessions left.
InitCached == Constructed /\ storage \in StorageInit

\* The bootstrap: initController over any cache, with the wallet's events
\* and the timer, and the host acting once it has settled.
NextInit ==
    \/ InitControllerAnyKey
    \/ HandshakeSettle
    \/ PollTick
    \/ AccountsSettle
    \/ ChainIdSettle
    \/ BalanceSettle
    \/ FallbackSettle
    \/ ProviderDisconnect
    \/ BalanceTick
    \/ CallWalletAction
    \/ RequireNetworkChange
    \/ SwitchSettle

SpecInit == InitCached /\ [][NextInit]_vars

\* The same, with the 100 ms timer of waitingEthereumPromise firing as long
\* as it is live.
SpecInitFair == SpecInit /\ WF_vars(PollTick)

\* A session in which the host replaces the network registry.
NextRegistry ==
    \/ InitController
    \/ ConnectWallet
    \/ AccountsSettle
    \/ ChainIdSettle
    \/ BalanceSettle
    \/ FallbackSettle
    \/ ChainChanged
    \/ SetNetworksList

SpecRegistry == Init /\ [][NextRegistry]_vars

\* A session of a host that registers and removes listeners.
NextListeners ==
    \/ InitController
    \/ ConnectWallet
    \/ AccountsSettle
    \/ ChainIdSettle
    \/ BalanceSettle
    \/ FallbackSettle
    \/ CallWalletAction
    \/ AddEventListener
    \/ RemoveEventListener
    \/ RemoveEventListeners

SpecListeners == Init /\ [][NextListeners]_vars

\* A session in which the user connects now one wallet, now the other.
NextProviders ==
    \/ InitController
    \/ ConnectEitherWallet
    \/ AccountsSettle
    \/ ChainIdSettle
    \/ BalanceSettle
    \/ FallbackSettle
    \/ CallWalletAction
    \/ ProviderDisconnect

SpecProviders == Init /\ [][NextProviders]_vars

-----------------------------------------------------------------------------
(* The properties. *)

\* The names of the events of a log, in order.
Events(log) == [i \in DOMAIN log |-> log[i].event]

\* The balance refreshes in flight: executions of walletBalanceSubscription
\* past the balanceUpdating guard and not yet finished.
refreshesInFlight ==
    BagCardinality([t \in {u \in Suspended : u.kind = "balance"} |-> tasks[t]])

\* The step is the completion of the suspended call t.
Completes(t) == tasks' = tasks (-) SetToBag({t})

\* C1: in every state the host can observe, between steps and inside an
\* event listener, state.connected is true if and only if data.ethereum,
\* data.web3, data.accountAddress and data.connectedWalletKey are all present.
C1_ConnectedIffDataComplete ==
    /\ state.connected <=> dataComplete(data)
    /\ \A i \in DOMAIN last.log : last.log[i].connected <=> last.log[i].complete

\* C2: no partial connection.  When connectWallet returns false from its catch
\* block (a failure after the subscriptions were established: its
\* disconnectWallet has emitted walletDisconnected), the state it leaves has
\* connected = false, data fully cleared and no cached wallet key in storage.
C2_NoPartialConnection ==
    (/\ last.op = "connectWallet" /\ last.ret = "false"
     /\ "walletDisconnected" \in {last.log[i].event : i \in DOMAIN last.log})
    => /\ ~state.connected
       /\ data = InitialData
       /\ storage[CachedEthereumProviderStorageKey] = Undefined

\* A connectWallet that failed after its subscriptions were established has
\* returned false, and the subscriptions are torn down again.
C2_Witness ==
    /\ last.op = "connectWallet" /\ last.ret = "false"
    /\ Events(last.log) = <<"walletDisconnected">>
    /\ ~state.connected /\ data = InitialData
    /\ handlers = {} /\ ~interval

\* C3: every call of initController ends with state.loading = false and
\* exactly one controllerInitialized emission, on every branch.
C3_InitEndsLoaded ==
    initCall.pc \in {"resolved", "rejected"} => ~state.loading /\ initEmits = 1

\* C4: no exception escapes a public method: initController, connectWallet,
\* requireNetworkChange and callWalletAction never throw or reject.
C4_NoExceptionEscapes ==
    /\ initCall.pc # "rejected"
    /\ ~(/\ last.ret = "rejected"
         /\ last.op \in {"initController", "connectWallet", "requireNetworkChange",
                         "callWalletAction"})

\* C5: a connectWallet that returns true has published accountChain,
\* accountChainValid, connected = true and balance together before its first
\* event, then emitted exactly networkChanged, balanceUpdated,
\* walletConnected(account, walletKey), accountChanged in that order, and has
\* published data.accountAddress after walletConnected and before
\* accountChanged.
C5_ConnectPublication ==
    [][(last'.op = "connectWallet" /\ last'.ret = "true") =>
        /\ Events(last'.log) =
               <<"networkChanged", "balanceUpdated", "walletConnected", "accountChanged">>
        /\ \A i \in 1 .. 4 : last'.log[i].connected
        /\ state'.connected
        /\ last'.log[1].args = <<state'.accountChain>> /\ last'.log[1].current
        /\ last'.log[2].args = <<state'.balance>> /\ last'.log[2].current
        /\ state'.accountChainValid = Some(state'.accountChain[1] >= 0)
        /\ Len(last'.log[3].args) = 2
        /\ last'.log[3].args[1] = data'.accountAddress
        /\ last'.log[3].args[2] # Undefined
        /\ \A i \in 1 .. 3 : last'.log[i].account = data.accountAddress
        /\ last'.log[4].args = <<data'.accountAddress>>
        /\ last'.log[4].account = data'.accountAddress
        /\ data'.accountAddress # Undefined]_vars

\* A first connection has succeeded: the listeners of walletConnected found no
\* account address yet, those of accountChanged found it.
C5_Witness ==
    /\ last.op = "connectWallet" /\ last.ret = "true"
    /\ Len(last.log) = 4
    /\ last.log[3].event = "walletConnected" /\ last.log[3].account = Undefined
    /\ last.log[4].account = data.accountAddress
    /\ state.connected /\ dataComplete(data)

\* C6: staleness discard.  When the balance request of a refresh resolves
\* after state.accountChain changed or the wallet was disconnected since the
\* refresh started, its result is not written to state.balance, no event is
\* emitted, and balanceUpdating is set back to false.
C6_StaleRefreshDiscarded ==
    [][\A t \in Suspended :
        (t.kind = "balance" /\ t.changed /\ Completes(t) /\ last'.ret = "void") =>
            /\ state'.balance = state.balance
            /\ last'.log = <<>>
            /\ state'.balanceUpdating = Some(FALSE)]_vars

\* C7: overlapping chain changes.  Once every walletChainSubscription call has
\* finished (none of them having failed), the connected state is on the
\* supported chain of the chainChanged that was delivered last, in whatever
\* order the fetches completed.
C7_LastChainWins ==
    (/\ state.connected /\ delivered # Undefined
     /\ delivered[1] \in DOMAIN networksList
     /\ \A t \in Suspended : t.kind # "chain")
    => state.accountChain = delivered

\* C8: in every connected state with an account address, state.balance is
\* zero or the balance of exactly data.accountAddress on state.accountChain.
C8_BalanceOfCurrentPair ==
    (state.connected /\ data.accountAddress # Undefined /\ state.accountChain # Undefined)
    => /\ state.balance # Undefined
       /\ state.balance[1] \in
              {0, BalanceOf(data.accountAddress[1], state.accountChain[1])}

\* C9: at most one balance refresh is in flight at any time.
C9_OneRefreshInFlight == refreshesInFlight <= 1

\* C10: refresh non-reentrancy.  A call of walletBalanceSubscription (by the
\* interval timer or by a new block) made while state.balanceUpdating is true
\* leaves state and data unchanged, starts no balance request and emits no
\* event.
C10_RefreshNotReentrant ==
    [][(Truthy(state.balanceUpdating) /\ (BalanceTick \/ NewBlockHeader)) =>
        /\ UNCHANGED <<state, data, storage, tasks, handlers, interval, blockSubs>>
        /\ last'.log = <<>>]_vars

\* A refresh was triggered while another one was pending, and was dropped.
C10_Witness ==
    /\ last.op = "walletBalanceSubscription" /\ last.ret = "void"
    /\ last.log = <<>>
    /\ Truthy(state.balanceUpdating)
    /\ refreshesInFlight = 1

\* C11: idempotent disconnect.  From any state, disconnectWallet called twice
\* in a row ends in the state one call ends in: data empty, state at its
\* baseline with loading untouched, no cached wallet key, no handler, timer
\* or block subscription left active; each call emits exactly one
\* walletDisconnected and neither throws.
C11_DisconnectIdempotent ==
    LET once == disconnectWallet(World)
        twice == disconnectWallet([once EXCEPT !.log = <<>>])
    IN /\ Events(once.log) = <<"walletDisconnected">>
       /\ Events(twice.log) = <<"walletDisconnected">>
       /\ ~once.thrown /\ ~twice.thrown
       /\ [twice EXCEPT !.log = <<>>] = [once EXCEPT !.log = <<>>]
       /\ once.data = InitialData
       /\ once.state = [InitialState EXCEPT !.loading = state.loading]
       /\ once.storage[CachedEthereumProviderStorageKey] = Undefined
       /\ once.handlers = {} /\ ~once.interval /\ once.blockSubs = {}

\* The step is taken by the suspended call t: it goes on from its await.
Resumes(t) == CopiesIn(t, tasks') < CopiesIn(t, tasks)

\* C12: disconnect cancels pending work.  A call (connectWallet or a
\* subscription handler) that was suspended at an await when disconnectWallet
\* ran does not change state.connected, state.balance, state.accountChain or
\* data.accountAddress when it goes on, whether or not a new connection has
\* been made meanwhile.
C12_DisconnectCancelsPending ==
    [][\A t \in Suspended :
        (t.disconnected /\ Resumes(t)) =>
            /\ state'.connected = state.connected
            /\ state'.balance = state.balance
            /\ state'.accountChain = state.accountChain
            /\ data'.accountAddress = data.accountAddress]_vars

\* C13: in every connected state, state.accountChainValid is true exactly
\* when state.accountChain is non-negative and a key of the current
\* networksList, also after setNetworksList has replaced the registry.
C13_ValidIffInRegistry ==
    state.connected =>
        (Truthy(state.accountChainValid) <=>
            /\ state.accountChain # Undefined
            /\ state.accountChain[1] >= 0
            /\ state.accountChain[1] \in DOMAIN networksList)

\* C14: unsupported chain switch.  When the wallet is connected and
\* chainChanged delivers a non-zero chain id that is not a key of
\* networksList, walletChainSubscription publishes accountChain = -1,
\* balance = 0 and accountChainValid = false in the same step, with no balance
\* request, emits exactly networkChanged(-1) then balanceUpdated(0), each
\* after the state it reports, and leaves connected and data unchanged.
C14_UnsupportedChainSwitch ==
    [][\A chain \in ChainInputs :
        (/\ state.connected
         /\ correctChainOf(chain) # 0
         /\ correctChainOf(chain) \notin DOMAIN networksList
         /\ Handler("walletChainSubscription", chainStart(World, chain)))
        => /\ state'.accountChain = Some(-1)
           /\ state'.balance = Some(0)
           /\ state'.accountChainValid = Some(FALSE)
           /\ Events(last'.log) = <<"networkChanged", "balanceUpdated">>
           /\ last'.log[1].args = <<Some(-1)>> /\ last'.log[1].current
           /\ last'.log[2].args = <<Some(0)>> /\ last'.log[2].current
           /\ state'.connected /\ data' = data
           /\ BagCardinality(tasks') = BagCardinality(tasks)]_vars

\* The wallet of a connected account has announced an unsupported chain, and
\* the handler has published it.
C14_Witness ==
    /\ state.connected /\ data.accountAddress # Undefined
    /\ delivered = Some(-1)
    /\ state.accountChain = Some(-1) /\ state.balance = Some(0)
    /\ state.accountChainValid = Some(FALSE)
    /\ Events(last.log) = <<"networkChanged", "balanceUpdated">>

\* C15: callWalletAction.  Called while connected or with forceDisconnect, it
\* disconnects and does nothing else; otherwise, while state.loading is true,
\* it changes nothing and opens no dialog; otherwise it changes nothing and
\* opens the connection dialog exactly when a modal key is configured.  It
\* never sets connected to true.
C15_CallWalletAction ==
    [][\A forceDisconnect \in BOOLEAN :
        callWalletActionCall(forceDisconnect) =>
            /\ state'.connected => state.connected
            /\ IF state.connected \/ forceDisconnect
               THEN /\ ~state'.connected
                    /\ data' = InitialData
                    /\ state' = [InitialState EXCEPT !.loading = state.loading]
                    /\ storage'[CachedEthereumProviderStorageKey] = Undefined
                    /\ handlers' = {} /\ ~interval'
                    /\ Events(last'.log) = <<"walletDisconnected">>
                    /\ ~last'.modal
               ELSE /\ UNCHANGED <<state, data, storage, handlers, interval,
                                   blockSubs, tasks>>
                    /\ last'.log = <<>>
                    /\ last'.modal <=>
                           (~state.loading /\ modalKey \notin {Undefined, Some("")})]_vars

\* The host asked for the connection dialog while disconnected and loaded,
\* and it was opened.
C15_Witness ==
    /\ last.modal /\ last.log = <<>>
    /\ ~state.connected /\ ~state.loading
    /\ modalKey = Some("web3-connect")

\* C16: requireNetworkChange changes neither state nor data (nor storage or
\* the subscriptions), at its call and when its request settles, and emits
\* no event.  It returns false at once when no provider is bound, false when
\* the switch request is rejected and true when it succeeds.
C16_RequireNetworkChangeFrame ==
    [][/\ (RequireNetworkChange \/ SwitchSettle) =>
            /\ UNCHANGED <<state, data, storage, handlers, interval, blockSubs>>
            /\ last'.log = <<>>
       /\ (RequireNetworkChange /\ data.ethereum = Undefined) =>
            /\ last'.op = "requireNetworkChange" /\ last'.ret = "false"
            /\ tasks' = tasks
       /\ (RequireNetworkChange /\ data.ethereum # Undefined) =>
            last'.ret = "none"
       /\ \A t \in Suspended, rejected \in BOOLEAN :
            switchSettle(t, rejected) =>
                /\ last'.op = "requireNetworkChange"
                /\ last'.ret = IF rejected THEN "false" ELSE "true"]_vars

\* A switch request made while connected has succeeded: the call returned
\* true and the state still holds the chain of before.
C16_Witness ==
    /\ last.op = "requireNetworkChange" /\ last.ret = "true"
    /\ state.connected /\ data.ethereum # Undefined
    /\ state.accountChain = Some(1)

\* The step is a call of the listener registry's own methods.
RegistryCall == AddEventListener \/ RemoveEventListener \/ RemoveEventListeners

\* The listener fn was called for the i-th event of the log.
CalledFor(fn, entry, calls) ==
    \E k \in DOMAIN calls :
        /\ calls[k].listener = fn.id
        /\ calls[k].event = entry.event /\ calls[k].args = entry.args

\* C17: callEvent isolates listener failures.  Whenever an operation of the
\* controller emits an event, every listener registered for it is called,
\* also those registered after one that throws, and the operation completes:
\* it does not throw or reject, and a connection whose walletConnected was
\* emitted is published in full.
C17_ListenerFailuresIsolated ==
    [][~RegistryCall =>
        /\ \A i \in DOMAIN last'.log :
              \A j \in DOMAIN listenersOf(World, last'.log[i].event) :
                  CalledFor(listenersOf(World, last'.log[i].event)[j],
                            last'.log[i], last'.calls)
        /\ last'.ret # "rejected"
        /\ "walletConnected" \in {last'.log[i].event : i \in DOMAIN last'.log} =>
              state'.connected /\ data'.accountAddress # Undefined]_vars

\* C18: addEventListener deduplicates by identity.  However often the same
\* listener is registered for an event, the event holds one registration of
\* it, and an emission of the event calls it once.
C18_OneRegistrationPerListener ==
    /\ \A e \in ListenerEvents :
          \A i, j \in DOMAIN eventListeners[e] :
              eventListeners[e][i].id = eventListeners[e][j].id => i = j
    /\ \A i \in DOMAIN last.log :
          \A k, l \in DOMAIN last.calls :
              (/\ last.calls[k].event = last.log[i].event
               /\ last.calls[l].event = last.log[i].event
               /\ last.calls[k].listener = last.calls[l].listener
               /\ Len(SelectSeq(last.log, LAMBDA x : x.event = last.log[i].event)) = 1)
              => k = l

\* C19: removeEventListener(event, L) removes exactly L, by identity: the
\* other listeners of the event, a distinct function with the same source
\* text included, stay registered in their order, and the listeners of the
\* other events are unchanged.
C19_RemovesExactlyListener ==
    [][\A event \in ListenerEvents, listener \in Listeners :
        removeEventListenerCall(event, listener) =>
            /\ eventListeners'[event] =
                   SelectSeq(eventListeners[event], LAMBDA fn : fn.id # listener.id)
            /\ \A e \in ListenerEvents \ {event} :
                   eventListeners'[e] = eventListeners[e]]_vars

\* C20: replay on registration.  addEventListener("walletConnected", L) while
\* connected calls L at once with the current account address and wallet
\* key, and addEventListener("controllerInitialized", L) while state.loading
\* is false calls L at once.
C20_ReplayOnRegistration ==
    [][\A event \in ListenerEvents, listener \in Listeners :
        addEventListenerCall(event, listener) =>
            /\ (event = "walletConnected" /\ state.connected) =>
                  \E k \in DOMAIN last'.calls :
                      /\ last'.calls[k].listener = listener.id
                      /\ last'.calls[k].event = "walletConnected"
                      /\ last'.calls[k].args =
                             <<data.accountAddress, data.connectedWalletKey>>
            /\ (event = "controllerInitialized" /\ ~state.loading) =>
                  \E k \in DOMAIN last'.calls :
                      /\ last'.calls[k].listener = listener.id
                      /\ last'.calls[k].event = "controllerInitialized"]_vars

\* C21: stale cached wallet.  When initController finds that the cached
\* wallet key is not among the wallets of the injected provider, it removes
\* the cached key from storage and makes no connection attempt: connected
\* stays false, data stays empty, no connectWallet call is started.
C21_StaleCachePurged ==
    [][\A p \in InjectedRoots :
        (/\ initCall.pc = "waitEthereum"
         /\ poll.attempts < MaxAttempts
         /\ initCall.cachedProvider[1] \notin DOMAIN getInstalledWallets(Some(p))
         /\ pollTickWith(Some(p)))
        => /\ storage'[CachedEthereumProviderStorageKey] = Undefined
           /\ ~state'.connected /\ data' = InitialData
           /\ tasks' = tasks]_vars

\* What one poll of waitingEthereumPromise does while initController awaits
\* it: at one of the polls 1 to 10 that finds window.ethereum it resolves with
\* it (initController goes on to the wallets of that provider), at poll 11 it
\* resolves with undefined, and otherwise it only counts; when it resolves,
\* the timer is cleared.
PollResolves(ethereum) ==
    IF poll.attempts < MaxAttempts /\ ethereum # Undefined
    THEN /\ ~poll'.live
         /\ IF initCall.cachedProvider[1] \in DOMAIN getInstalledWallets(ethereum)
            THEN initCall'.pc = "connecting" /\ data'.ethereum = Some("injected")
            ELSE initCall'.pc = "resolved"
    ELSE IF poll.attempts = MaxAttempts
    THEN ~poll'.live /\ initCall'.pc = "resolved" /\ data' = data
    ELSE poll'.live /\ initCall'.pc = "waitEthereum" /\ poll'.attempts = poll.attempts + 1

\* C26: waitingEthereumPromise always terminates and resolves exactly once:
\* with the injected provider at the first of the polls 1 to 10 at which
\* window.ethereum is present, otherwise with undefined at poll 11; the timer
\* is cleared on both paths, so that it is live only while the promise is
\* pending and no poll follows the resolution.
C26_PollTerminates ==
    /\ [](poll.live => initCall.pc = "waitEthereum")
    /\ [](poll.attempts <= MaxAttempts + 1)
    /\ [][/\ \A ethereum \in {Undefined} \cup {Some(p) : p \in InjectedRoots} :
              (initCall.pc = "waitEthereum" /\ pollTickWith(ethereum))
              => PollResolves(ethereum)
          /\ initCall.pc \notin {"idle", "waitEthereum"}
              => initCall'.pc # "waitEthereum" /\ poll' = poll]_vars
    /\ (initCall.pc = "waitEthereum" ~> initCall.pc # "waitEthereum")

\* The provider was injected after two polls: the third one found it, the
\* timer is cleared and initController is connecting the cached wallet.
C26_Witness ==
    /\ poll.attempts = 3 /\ ~poll.live
    /\ initCall.pc = "connecting"
    /\ data.ethereum = Some("injected")

\* C22: getAccountBalance never throws on network failure.  For every call
\* that is awaiting its requests and every way they can end (value, zero,
\* rejection or timeout of the wallet's getBalance, and of the direct RPC
\* getBalance when it is made), the call resolves with a balance and does not
\* reject.
C22_BalanceNeverRejects ==
    \A t \in Suspended, fallback \in FetchOutcomes :
        t.stage = "fallback" => ~getAccountBalanceFallback(World, t, fallback).thrown

\* C23: no account change is missed during negotiation.  When the provider
\* has emitted accountsChanged with account X while connectWallet, its
\* subscriptions created and its account request answered, had not yet
\* published the connection, then once that connectWallet has returned true
\* and no accounts handler is running, data.accountAddress is X.
C23_AccountChangeNotMissed ==
    [][\A t \in Suspended :
        (/\ t.kind = "connect" /\ t.heard # Undefined
         /\ Resumes(t)
         /\ last'.op = "connectWallet" /\ last'.ret = "true"
         /\ \A u \in BagToSet(tasks') : u.kind # "accounts")
        => data'.accountAddress = t.heard]_vars

\* C24: state and its paired event are published together.  Whenever a
\* balanceUpdated listener is called with payload b, state.balance is b at
\* that moment, and whenever a networkChanged listener is called with payload
\* c, state.accountChain is c.
C24_EventPayloadPublished ==
    \A i \in DOMAIN last.log :
        last.log[i].event \in {"balanceUpdated", "networkChanged"}
            => last.log[i].current

\* C25: subscriptions follow the current session only.  The accountsChanged,
\* chainChanged and disconnect handlers are registered on at most one
\* provider, the one bound as data.ethereum: after connectWallet(P2) while P1
\* was bound no handler is left on P1, and when no provider is bound (after
\* disconnectWallet) no handler is registered and the balance timer is
\* cleared.
C25_HandlersOnBoundProvider ==
    /\ handlers \subseteq {data.ethereum[i] : i \in DOMAIN data.ethereum}
    /\ data.ethereum = Undefined => ~interval

\* C27: the refresh flag is always released.  Every execution of
\* walletBalanceSubscription that has set state.balanceUpdating to true sets
\* it back to false before it ends, whatever the outcome of the wallet's and
\* of the direct balance request: the flag is true only while a refresh is
\* still awaiting its balance, so that the settling of that request, which
\* its timers guarantee, releases it.
C27_RefreshFlagReleased ==
    Truthy(state.balanceUpdating) => refreshesInFlight >= 1

====
